---- MODULE Spec2Model ----
(***************************************************************************)
(* State-machine model of the storefront catalog component                 *)
(* (apps/web/src/app/_components/features/ProductCatalog.tsx).             *)
(*                                                                         *)
(* The component is a React function component.  Its state is the React    *)
(* state (products, addingToCart), the shared jotai atoms (results,        *)
(* isLoadingResults, quantity, query), the state of the infinite query     *)
(* (data, isFetchingNextPage, hasNextPage) and of the cart mutation, and   *)
(* the values the attached scroll listener captured at the last render.    *)
(*                                                                         *)
(* Numbers are JavaScript numbers; prices are kept exactly, as integer     *)
(* multiples of 1/FeeScale (see calculateTotalPrice).  Optional fields     *)
(* that may be absent hold Undefined / "undefined".                        *)
(***************************************************************************)
EXTENDS Integers, Sequences, FiniteSets, TLC

VARIABLES
    isConnected,        \* prop: "true" | "false" | "undefined" (absent)
    onConnect,          \* prop: TRUE iff a callback was supplied
    priceBase,          \* server side: prices of the catalog (see PriceOf)
    products,           \* useState<Product[]>
    results,            \* searchResultsAtom
    isLoadingResults,   \* isLoadingAtom
    quantity,           \* quantityOfProducts
    query,              \* searchQueryAtom
    addingToCart,       \* useState<number | null>
    data,               \* infinite query: the pages fetched so far (<<>>: undefined)
    isInitialLoading,   \* infinite query: the first page is being fetched
    isFetchingNextPage, \* infinite query: a next-page fetch is pending
    inFlight,           \* next-page requests sent and not yet answered
    renderedFetching,   \* isFetchingNextPage as of the last render (handleScroll's closure)
    renderedHasNext,    \* hasNextPage as of the last render (handleScroll's closure)
    mutations,          \* cart-add mutations issued and not yet settled
    lastOp              \* the handler that ran last and the external calls it made

vars == <<isConnected, onConnect, priceBase, products, results, isLoadingResults,
          quantity, query, addingToCart, data, isInitialLoading, isFetchingNextPage,
          inFlight, renderedFetching, renderedHasNext, mutations, lastOp>>

propVars   == <<isConnected, onConnect, priceBase>>
atomVars   == <<results, isLoadingResults, quantity, query>>
queryVars  == <<data, isInitialLoading, isFetchingNextPage, inFlight>>
renderVars == <<products, renderedFetching, renderedHasNext>>

-----------------------------------------------------------------------------
(* Bounds of the model *)

NumProducts == 4      \* products the server holds
MaxInFlight == 2      \* next-page requests outstanding at once
MaxMutations == 2     \* cart-add mutations outstanding at once
MaxResults == 2       \* length of the shared results list
MaxPrice == 12        \* largest base price offset
DocHeight == 300      \* document.body.offsetHeight

(* Program constants *)

MARKET_FEE_BPS == 5000
FeeScale == 10000
PageLimit == 3
ScrollThreshold == 100
Null == 0
Undefined == -1

-----------------------------------------------------------------------------
(* The remote product API: a fixed table of products, served in cursor     *)
(* order, PageLimit at a time.  Hidden products and products without a     *)
(* stock are in the table so that the client's own defaults are exercised. *)

Ids == 1..NumProducts

HiddenOf(i) == CASE i % 3 = 1 -> "false"
                 [] i % 3 = 2 -> "true"
                 [] OTHER     -> "undefined"

StockOf(i) == IF i % 2 = 0 THEN Undefined ELSE i

PriceOf(i) == priceBase + i

ServerProduct(i) ==
    [id |-> i, hidden |-> HiddenOf(i), price |-> PriceOf(i), stock |-> StockOf(i),
     process |-> "undefined"]

Min(a, b) == IF a < b THEN a ELSE b

getProducts(cursor) ==
    LET last == Min(cursor + PageLimit - 1, NumProducts)
    IN  [products   |-> [k \in 1..(last - cursor + 1) |-> ServerProduct(cursor + k - 1)],
         nextCursor |-> IF last < NumProducts THEN last + 1 ELSE Undefined]

-----------------------------------------------------------------------------
(* Pure helpers of the component *)

RECURSIVE FlatMap(_, _)
FlatMap(F(_), s) == IF s = <<>> THEN <<>> ELSE F(Head(s)) \o FlatMap(F, Tail(s))

\* product.hidden === true (the filters test its negation, hidden !== true)
IsHiddenAsText(product) == product.hidden = "1"
IsHidden(product) == product.hidden = "true"

\* product.stock ?? 0
StockOrZero(product) == IF product.stock = Undefined THEN 0 ELSE product.stock

\* the value is FeeScale times the JavaScript number the function returns
calculateTotalPriceTruncating(price) ==
    price * FeeScale + ((price * MARKET_FEE_BPS) \div FeeScale) * FeeScale
calculateTotalPrice(price) ==
    LET fee == price * MARKET_FEE_BPS     \* FeeScale * ((price * BPS) / 10000)
    IN  price * FeeScale + fee

\* getNextPageParam and the query's hasNextPage
HasNextPage == data # <<>> /\ data[Len(data)].nextCursor # Undefined

NormalizePage(page) ==
    LET Keep(product) ==
            IF IsHidden(product) THEN <<>>
            ELSE <<[product EXCEPT !.process = "Natural", !.stock = StockOrZero(product)]>>
    IN  FlatMap(Keep, page.products)

\* the effect on [data]: data.pages.flatMap(...)
AllProducts(d) == FlatMap(NormalizePage, d)

-----------------------------------------------------------------------------
(* What the component renders in the current state *)

renderProduct(product) ==
    IF IsHidden(product) THEN <<>>
    ELSE <<[key   |-> product.id,
            price |-> calculateTotalPrice(product.price),
            stock |-> product.stock,
            isConnected |-> isConnected,
            isAddingToShoppingCart |-> (addingToCart = product.id)]>>

RenderResult(product) ==
    IF IsHidden(product) THEN <<>>
    ELSE renderProduct([product EXCEPT !.stock = StockOrZero(product)])

NextPageSkeleton == IF renderedFetching THEN {"nextPageSkeleton"} ELSE {}

\* the returned tree: its panels, and its product cards in order
RenderedQueryFirst ==
    IF isLoadingResults THEN [panels |-> {"skeleton"}, cards |-> <<>>]
    ELSE IF query # ""
    THEN IF Len(results) > 0
         THEN [panels |-> {"searchResults"} \cup NextPageSkeleton,
               cards  |-> FlatMap(RenderResult, results)]
         ELSE [panels |-> {"emptyState"} \cup NextPageSkeleton, cards |-> <<>>]
    ELSE [panels |-> {"grid"} \cup NextPageSkeleton,
          cards  |-> FlatMap(renderProduct, products)]
Rendered ==
    IF isLoadingResults THEN [panels |-> {"skeleton"}, cards |-> <<>>]
    ELSE IF Len(results) > 0
    THEN [panels |-> {"searchResults"} \cup NextPageSkeleton,
          cards  |-> FlatMap(RenderResult, results)]
    ELSE IF query # ""
    THEN [panels |-> {"emptyState"} \cup NextPageSkeleton, cards |-> <<>>]
    ELSE [panels |-> {"grid"} \cup NextPageSkeleton,
          cards  |-> FlatMap(renderProduct, products)]

Panels == Rendered.panels
Cards == Rendered.cards

CardKeys == {Cards[k].key : k \in 1..Len(Cards)}
CardFor(id) == Cards[CHOOSE k \in 1..Len(Cards) : Cards[k].key = id]

\* the two clear-search controls exist only in these panels
ClearControlRendered == Panels \cap {"searchResults", "emptyState"} # {}

\* ProductCard: the add button is inert while the card is marked as adding
AddButtonEnabled(card) == ~card.isAddingToShoppingCart

-----------------------------------------------------------------------------
Call(fn, productId, qty) == [fn |-> fn, productId |-> productId, quantity |-> qty]
Op(name, target, calls) == [op |-> name, target |-> target, calls |-> calls]
Calls(fn) == {k \in 1..Len(lastOp.calls) : lastOp.calls[k].fn = fn}

\* the props a parent may pass, and the ones Home passes: <ProductCatalog />
AnyProps == {"true", "false", "undefined"} \X BOOLEAN
HomeProps == {<<"undefined", FALSE>>}

InitWith(prices, props) ==
    /\ \E prop \in props : isConnected = prop[1] /\ onConnect = prop[2]
    /\ priceBase \in prices
    /\ products = <<>>
    /\ results = <<>>
    /\ isLoadingResults = FALSE
    /\ quantity = 0
    /\ query = ""
    /\ addingToCart = Null
    /\ data = <<>>
    /\ isInitialLoading = TRUE
    /\ isFetchingNextPage = FALSE
    /\ inFlight = 0
    /\ renderedFetching = FALSE
    /\ renderedHasNext = FALSE
    /\ mutations = <<>>
    /\ lastOp = Op("mount", Null, <<>>)

Init == InitWith({MaxPrice}, AnyProps)
InitHome == InitWith({MaxPrice}, HomeProps)

-----------------------------------------------------------------------------
(* The infinite query *)

InitialPageArrives ==
    /\ isInitialLoading
    /\ data' = <<getProducts(1)>>
    /\ isInitialLoading' = FALSE
    /\ lastOp' = Op("initialPage", Null, <<>>)
    /\ UNCHANGED <<propVars, atomVars, renderVars, addingToCart, mutations,
                   isFetchingNextPage, inFlight>>

\* a render after the query's state changed: the component function runs
\* against the current query state, the effect on [data] stores the flattened
\* pages, the effect on [handleScroll] re-attaches the listener with the new
\* closure
Render ==
    /\ \/ renderedFetching # isFetchingNextPage
       \/ renderedHasNext # HasNextPage
       \/ (data # <<>> /\ products # AllProducts(data))
    /\ renderedFetching' = isFetchingNextPage
    /\ renderedHasNext' = HasNextPage
    /\ products' = IF data # <<>> THEN AllProducts(data) ELSE products
    /\ lastOp' = Op("render", Null, <<>>)
    /\ UNCHANGED <<propVars, atomVars, queryVars, addingToCart, mutations>>

\* fetchNextPage(): with no next page there is nothing to request; otherwise a
\* request is sent, and a pending one is superseded (its answer is dropped)
fetchNextPage ==
    IF HasNextPage
    THEN /\ inFlight < MaxInFlight
         /\ isFetchingNextPage' = TRUE
         /\ inFlight' = inFlight + 1
    ELSE UNCHANGED <<isFetchingNextPage, inFlight>>

handleScroll(reach, offsetHeight) ==
    /\ IF /\ reach >= offsetHeight - ScrollThreshold
          /\ ~renderedFetching
          /\ renderedHasNext
       THEN /\ fetchNextPage
            /\ lastOp' = Op("scroll", Null, <<Call("fetchNextPage", Null, 0)>>)
       ELSE /\ UNCHANGED <<isFetchingNextPage, inFlight>>
            /\ lastOp' = Op("scroll", Null, <<>>)
    /\ UNCHANGED <<propVars, atomVars, renderVars, addingToCart, mutations,
                   data, isInitialLoading>>

ScrollReaches == {0, DocHeight - ScrollThreshold - 1, DocHeight - ScrollThreshold, DocHeight}

Scroll == \E reach \in ScrollReaches : handleScroll(reach, DocHeight)

NextPageArrives ==
    /\ isFetchingNextPage
    /\ data' = Append(data, getProducts(data[Len(data)].nextCursor))
    /\ isFetchingNextPage' = FALSE
    /\ inFlight' = inFlight - 1
    /\ lastOp' = Op("nextPage", Null, <<>>)
    /\ UNCHANGED <<propVars, atomVars, renderVars, addingToCart, mutations,
                   isInitialLoading>>

NextPageFails ==
    /\ isFetchingNextPage
    /\ isFetchingNextPage' = FALSE
    /\ inFlight' = inFlight - 1
    /\ lastOp' = Op("nextPageError", Null, <<>>)
    /\ UNCHANGED <<propVars, atomVars, renderVars, addingToCart, mutations,
                   data, isInitialLoading>>

SupersededPageArrives ==
    /\ inFlight > (IF isFetchingNextPage THEN 1 ELSE 0)
    /\ inFlight' = inFlight - 1
    /\ lastOp' = Op("supersededPage", Null, <<>>)
    /\ UNCHANGED <<propVars, atomVars, renderVars, addingToCart, mutations,
                   data, isInitialLoading, isFetchingNextPage>>

-----------------------------------------------------------------------------
(* The shared search atoms *)

\* the products with identifiers in S, in the order of the server's table
RECURSIVE Listing(_)
Listing(S) ==
    IF S = {} THEN <<>>
    ELSE LET last == CHOOSE i \in S : \A j \in S : j <= i
         IN  Append(Listing(S \ {last}), ServerProduct(last))

ResultLists == {Listing(S) : S \in {T \in SUBSET Ids : Cardinality(T) <= MaxResults}}
Queries == {"", "arabica"}

\* the search bar, the producer of the atoms: it types the query, raises and
\* lowers the loading flag, and stores a result list with its count
SearchBarSetsQuery ==
    \E q \in Queries :
        /\ q # query
        /\ query' = q
        /\ lastOp' = Op("searchQuery", Null, <<>>)
        /\ UNCHANGED <<propVars, queryVars, renderVars, addingToCart, mutations,
                       results, quantity, isLoadingResults>>

SearchBarSetsLoading ==
    /\ isLoadingResults' = ~isLoadingResults
    /\ lastOp' = Op("searchLoading", Null, <<>>)
    /\ UNCHANGED <<propVars, queryVars, renderVars, addingToCart, mutations,
                   results, quantity, query>>

SearchBarSetsResults ==
    \E r \in ResultLists :
        /\ r # results
        /\ results' = r
        /\ quantity' = Len(r)
        /\ lastOp' = Op("searchResults", Null, <<>>)
        /\ UNCHANGED <<propVars, queryVars, renderVars, addingToCart, mutations,
                       query, isLoadingResults>>

clearSearchKeepingCount ==
    /\ ClearControlRendered
    /\ results' = <<>>
    /\ isLoadingResults' = FALSE
    /\ query' = ""
    /\ lastOp' = Op("clearSearch", Null, <<>>)
    /\ UNCHANGED <<propVars, queryVars, renderVars, addingToCart, mutations, quantity>>
clearSearch ==
    /\ ClearControlRendered
    /\ quantity' = 0
    /\ results' = <<>>
    /\ isLoadingResults' = FALSE
    /\ query' = ""
    /\ lastOp' = Op("clearSearch", Null, <<>>)
    /\ UNCHANGED <<propVars, queryVars, renderVars, addingToCart, mutations>>

-----------------------------------------------------------------------------
(* Add to cart *)

\* addToCart(variables, {onSuccess, onError}): the per-call callbacks belong to
\* the hook's observer, which follows the latest mutate call only
addToCart(productId, qty) ==
    [k \in 1..Len(mutations) |-> [mutations[k] EXCEPT !.observed = FALSE]]
        \o <<[productId |-> productId, quantity |-> qty, observed |-> TRUE]>>

handleAddToCartWhenConnected(id) ==
    /\ id \in CardKeys
    /\ AddButtonEnabled(CardFor(id))
    /\ IF isConnected # "true"
       THEN /\ lastOp' = Op("addToCart", id,
                            IF onConnect THEN <<Call("onConnect", Null, 0)>> ELSE <<>>)
            /\ UNCHANGED <<addingToCart, mutations>>
       ELSE /\ Len(mutations) < MaxMutations
            /\ addingToCart' = id
            /\ mutations' = addToCart(id, 1)
            /\ lastOp' = Op("addToCart", id, <<Call("addToCart", id, 1)>>)
    /\ UNCHANGED <<propVars, atomVars, queryVars, renderVars>>
handleAddToCart(id) ==
    /\ id \in CardKeys
    /\ AddButtonEnabled(CardFor(id))
    /\ IF isConnected # "true" /\ onConnect
       THEN /\ lastOp' = Op("addToCart", id, <<Call("onConnect", Null, 0)>>)
            /\ UNCHANGED <<addingToCart, mutations>>
       ELSE /\ Len(mutations) < MaxMutations
            /\ addingToCart' = id
            /\ mutations' = addToCart(id, 1)
            /\ lastOp' = Op("addToCart", id, <<Call("addToCart", id, 1)>>)
    /\ UNCHANGED <<propVars, atomVars, queryVars, renderVars>>

AddToCartClick == \E id \in Ids : handleAddToCart(id)

Remove(s, i) == SubSeq(s, 1, i - 1) \o SubSeq(s, i + 1, Len(s))

\* the mutation settles: the hook's onSuccess refetches the cart, the per-call
\* onSuccess / onError clear the marker
MutationSettlesThenRefetches(i, ok) ==
    /\ i \in 1..Len(mutations)
    /\ mutations' = Remove(mutations, i)
    /\ addingToCart' = IF mutations[i].observed THEN Null ELSE addingToCart
    /\ lastOp' = Op(IF ok THEN "addSuccess" ELSE "addError", mutations[i].productId,
                    <<Call("refetchCart", Null, 0)>>)
    /\ UNCHANGED <<propVars, atomVars, queryVars, renderVars>>
MutationSettles(i, ok) ==
    /\ i \in 1..Len(mutations)
    /\ mutations' = Remove(mutations, i)
    /\ addingToCart' = IF mutations[i].observed THEN Null ELSE addingToCart
    /\ lastOp' = Op(IF ok THEN "addSuccess" ELSE "addError", mutations[i].productId,
                    IF ok THEN <<Call("refetchCart", Null, 0)>> ELSE <<>>)
    /\ UNCHANGED <<propVars, atomVars, queryVars, renderVars>>

MutationSucceeds == \E i \in 1..MaxMutations : MutationSettles(i, TRUE)
MutationFails == \E i \in 1..MaxMutations : MutationSettles(i, FALSE)

-----------------------------------------------------------------------------
PagingStep ==
    \/ Scroll
    \/ NextPageArrives
    \/ NextPageFails
    \/ SupersededPageArrives

SearchStep ==
    \/ SearchBarSetsQuery
    \/ SearchBarSetsLoading
    \/ SearchBarSetsResults
    \/ clearSearch

CartStep ==
    \/ AddToCartClick
    \/ MutationSucceeds
    \/ MutationFails

Next ==
    \/ InitialPageArrives
    \/ Render
    \/ PagingStep
    \/ SearchStep
    \/ CartStep

Spec == Init /\ [][Next]_vars

\* the page Home: browsing and searching, nobody adds to the cart
NextBrowse ==
    \/ InitialPageArrives
    \/ Render
    \/ PagingStep
    \/ SearchStep

SpecBrowse == InitHome /\ [][NextBrowse]_vars

\* the page Home: searching and adding to the cart on the first page, nobody
\* scrolls
NextCart ==
    \/ InitialPageArrives
    \/ Render
    \/ SearchStep
    \/ CartStep

SpecCart == InitHome /\ [][NextCart]_vars

\* the component under every combination of props: the first page, search
\* results and the cart
NextGate ==
    \/ InitialPageArrives
    \/ Render
    \/ SearchBarSetsResults
    \/ clearSearch
    \/ CartStep

SpecGate == Init /\ [][NextGate]_vars

\* the page Home over every base price: the first page and the search results
NextPrice ==
    \/ InitialPageArrives
    \/ Render
    \/ SearchBarSetsResults
    \/ clearSearch

SpecPrice == InitWith(0..MaxPrice, HomeProps) /\ [][NextPrice]_vars

-----------------------------------------------------------------------------
(* Properties *)

SettledOps == {"addSuccess", "addError"}
MainPanels == {"searchResults", "emptyState", "grid"}

\* C1: the catalog never has two next-page requests in flight, and a scroll
\* event that reaches the bottom threshold while a next-page fetch is pending
\* does not call fetchNextPage
SingleNextPageRequest ==
    [][/\ inFlight' <= 1
       /\ (lastOp'.op = "scroll" /\ lastOp'.calls # <<>>) => ~isFetchingNextPage]_vars

\* C2: an add-to-cart click while not connected and with an onConnect callback
\* calls onConnect exactly once, issues no mutation and leaves the marker; any
\* other click issues the cart-add mutation for the clicked product, quantity 1
AddToCartGate ==
    [][lastOp'.op = "addToCart" =>
         IF isConnected # "true" /\ onConnect
         THEN /\ lastOp'.calls = <<Call("onConnect", Null, 0)>>
              /\ mutations' = mutations
              /\ addingToCart' = addingToCart
         ELSE /\ lastOp'.calls = <<Call("addToCart", lastOp'.target, 1)>>
              /\ Len(mutations') = Len(mutations) + 1
              /\ mutations'[Len(mutations')].productId = lastOp'.target
              /\ mutations'[Len(mutations')].quantity = 1]_vars

\* C2 witness: a click was diverted to onConnect
AddToCartDiverted ==
    /\ lastOp.op = "addToCart"
    /\ isConnected = "undefined"
    /\ onConnect
    /\ Cardinality(Calls("onConnect")) = 1
    /\ mutations = <<>>

\* C3: once a cart-add mutation has settled, with success or with failure, the
\* adding marker is null
MarkerClearedOnSettle == lastOp.op \in SettledOps => addingToCart = Null

\* C4: no product whose hidden flag is true is rendered as a card, in the grid
\* or in the search results
NoHiddenCard == \A k \in 1..Len(Cards) : HiddenOf(Cards[k].key) # "true"

\* C4 witness: the search results are shown, a hidden product is among the
\* results and another among the fetched pages
HiddenProductsFiltered ==
    /\ "searchResults" \in Panels
    /\ Len(Cards) > 0
    /\ \E k \in 1..Len(results) : results[k].hidden = "true"
    /\ \E n \in 1..Len(data) :
          \E k \in 1..Len(data[n].products) : data[n].products[k].hidden = "true"
    /\ products # <<>>

\* C5: clear-search ends with query "", count 0, no results and loading off,
\* and leaves the paginated product list and the adding marker as they were
ClearSearchResets ==
    [][lastOp'.op = "clearSearch" =>
         /\ query' = ""
         /\ quantity' = 0
         /\ results' = <<>>
         /\ isLoadingResults' = FALSE
         /\ products' = products
         /\ addingToCart' = addingToCart]_vars

\* C5 witness: the search was cleared while products were listed, a count was
\* shown and a card was marked as adding
ClearedWhileAdding ==
    /\ lastOp.op = "clearSearch"
    /\ products # <<>>
    /\ addingToCart # Null
    /\ quantity = 0

\* C6: while the first page is still being fetched or the loading flag is set,
\* only skeleton placeholders are rendered
SkeletonWhileLoading ==
    (isInitialLoading \/ isLoadingResults) => (Panels = {"skeleton"} /\ Cards = <<>>)

\* C7: with the loading flag off exactly one of the three views is rendered:
\* the search results if there are results, else the empty state if there is
\* a query, else the grid
OneViewByPriority ==
    ~isLoadingResults =>
        /\ Cardinality(Panels \cap MainPanels) = 1
        /\ "searchResults" \in Panels <=> Len(results) > 0
        /\ "emptyState" \in Panels <=> (Len(results) = 0 /\ query # "")
        /\ "grid" \in Panels <=> (Len(results) = 0 /\ query = "")
        /\ "skeleton" \notin Panels

\* C7 witness: results are shown although the query is empty
ResultsShownWithoutQuery ==
    /\ ~isLoadingResults
    /\ query = ""
    /\ Len(results) > 0
    /\ "searchResults" \in Panels

DisplayedPrice ==
    \A k \in 1..Len(Cards) :
        LET price == PriceOf(Cards[k].key)
        IN  /\ 2 * Cards[k].price = 3 * price * FeeScale
            /\ (price = 10 => Cards[k].price = 15 * FeeScale)

\* C9 witness: a card of a product with an odd price, and one with price 10
OddPriceDisplayed ==
    /\ \E k \in 1..Len(Cards) : PriceOf(Cards[k].key) % 2 = 1
    /\ \E k \in 1..Len(Cards) : PriceOf(Cards[k].key) = 10

\* C10: while a cart-add mutation for a product is in flight, that product is
\* the one marked as adding
InFlightProductStaysMarked ==
    \A k \in 1..Len(mutations) : addingToCart = mutations[k].productId

====
